---- MODULE Spec2Model ----
(***************************************************************************)
(* Model of storycraftr's document pipeline:                               *)
(*   - the Document Store (storycraftr/utils/markdown.py): save, append,   *)
(*     read, with text-mode newline handling;                              *)
(*   - the Content Generator (storycraftr/agent/story/chapters.py);        *)
(*   - the Consolidator (consolidate_book_md).                             *)
(* Text and file names are sequences of one-character strings; the disk    *)
(* is a function from the paths that exist to the bytes they hold.         *)
(***************************************************************************)
EXTENDS Integers, Sequences, FiniteSets, TLC

VARIABLES disk, last, trace, saves, cfg, cons, gens, runs, sv, cli, chat

vars == <<disk, last, trace, saves, cfg, cons, gens, runs, sv, cli, chat>>

(***************************************************************************)
(* Bounds                                                                  *)
(***************************************************************************)
\* longest text handed to save/append in the Document Store specification
MaxLen == 1
\* longest file the Document Store specification lets append build
MaxFileLen == 3
\* operations (generate calls and consolidation runs) per behaviour
MaxOps == 2

(***************************************************************************)
(* Characters and text                                                     *)
(***************************************************************************)
LF == "\n"
CR == "\r"

\* os.linesep of the platform the program runs on (POSIX)
linesep == <<LF>>

Alphabet == {"a", LF, CR}

\* "\n\\newpage\n"
PAGE_BREAK == <<LF, "\\", "n", "e", "w", "p", "a", "g", "e", LF>>

TextsUpTo(n) == UNION {[1..k -> Alphabet] : k \in 0..n}

\* texts the Document Store specification saves, appends and reads back
StoreContents == TextsUpTo(MaxLen) \cup {<<CR, LF>>, <<"a", CR, LF, "a">>, PAGE_BREAK}

RECURSIVE WriteText(_)
\* text-mode write (newline=None): every "\n" becomes os.linesep, all else verbatim
WriteText(s) ==
    IF s = <<>> THEN <<>>
    ELSE (IF Head(s) = LF THEN linesep ELSE <<Head(s)>>) \o WriteText(Tail(s))

RECURSIVE ReadText(_)
\* text-mode read (newline=None, universal newlines): "\r\n" and "\r" become "\n"
ReadText(b) ==
    IF b = <<>> THEN <<>>
    ELSE IF Head(b) = CR
         THEN IF Len(b) >= 2 /\ b[2] = LF
              THEN <<LF>> \o ReadText(Tail(Tail(b)))
              ELSE <<LF>> \o ReadText(Tail(b))
         ELSE <<Head(b)>> \o ReadText(Tail(b))

(***************************************************************************)
(* Paths                                                                   *)
(***************************************************************************)
BAK == <<".", "b", "a", "k">>
MD == <<".", "m", "d">>

\* a path is <<directory, file name>>
PathOf(dir, name) == <<dir, name>>

\* file_path.with_suffix(file_path.suffix + '.bak')
BackupPath(p) == <<p[1], p[2] \o BAK>>

\* file_path.exists()
Exists(d, p) == p \in DOMAIN d

\* the disk after path p holds bytes b
WriteBytes(d, p, b) == [q \in DOMAIN d \cup {p} |-> IF q = p THEN b ELSE d[q]]

\* shutil.copy2(src, dst)
Copy2(d, src, dst) == WriteBytes(d, dst, d[src])

\* mutant of save_to_markdown: backs up an existing file whatever create_backup says
save_to_markdownMutAlways(d, p, content, create_backup) ==
    LET b == IF Exists(d, p) THEN Copy2(d, p, BackupPath(p)) ELSE d
    IN  WriteBytes(b, p, WriteText(content))

\* mutant of save_to_markdown: backs up after the overwrite
save_to_markdownMutLate(d, p, content, create_backup) ==
    LET w == WriteBytes(d, p, WriteText(content))
    IN  IF create_backup /\ Exists(d, p) THEN Copy2(w, p, BackupPath(p)) ELSE w

\* save_to_markdown: the disk after the call
save_to_markdown(d, p, content, create_backup) ==
    LET b == IF create_backup /\ Exists(d, p) THEN Copy2(d, p, BackupPath(p)) ELSE d
    IN  WriteBytes(b, p, WriteText(content))

\* test.md of the test suite
TEST_MD == <<"t", "e", "s", "t">> \o MD

StorePaths == {PathOf("tmp", TEST_MD)}

NoResult ==
    [op |-> "none", path |-> <<>>, status |-> "none", ret |-> <<>>, at |-> "", existed |-> FALSE]

\* outcome of an operation: status is "ok" or the exception raised, ret the text
\* returned, at the call that raised, existed whether the target file was there
Result(op, p, status, ret) ==
    [op |-> op, path |-> p, status |-> status, ret |-> ret, at |-> "", existed |-> FALSE]

\* the last two successive saves to a path, oldest first
Push(log, e) == IF Len(log) < 2 THEN Append(log, e) ELSE <<log[2], e>>

\* the Consolidator when no run is in progress
ConsIdle ==
    [pc |-> "idle", files |-> <<>>, i |-> 0, out |-> <<>>,
     translate |-> [some |-> FALSE, lang |-> <<>>],
     thread |-> 0, total |-> 0, completed |-> 0,
     task_translation |-> [created |-> FALSE, total |-> 0]]

\* no save call in progress
SaveIdle ==
    [pc |-> "idle", path |-> <<>>, content |-> <<>>, backup |-> FALSE, d0 |-> <<>>,
     todo |-> <<>>, opened |-> FALSE]

\* the init command has not been invoked
CliIdle == [pc |-> "idle"]

\* the chat command has not been invoked
ChatIdle == [pc |-> "idle"]

(***************************************************************************)
(* Document Store specification                                            *)
(***************************************************************************)
StoreInit ==
    /\ disk = <<>>
    /\ last = NoResult
    /\ trace = <<>>
    /\ saves = [p \in StorePaths |-> <<>>]
    /\ cfg = "ok"
    /\ cons = ConsIdle
    /\ gens = 0
    /\ runs = 0
    /\ sv = SaveIdle
    /\ chat = ChatIdle
    /\ cli = CliIdle

SaveFile(p, content, create_backup) ==
    /\ disk' = save_to_markdown(disk, p, content, create_backup)
    /\ last' = Result("save", p, "ok", <<>>)
    /\ saves' = [saves EXCEPT ![p] = Push(@, [content |-> content, backup |-> create_backup])]
    /\ UNCHANGED <<trace, cfg, sv, cli, chat, cons, gens, runs>>

\* mutant of AppendFile: opens the file for writing, dropping what it held
AppendFileMutTruncate(p, content) ==
    IF ~Exists(disk, p)
    THEN /\ last' = Result("append", p, "FileNotFoundError", <<>>)
         /\ UNCHANGED <<disk, trace, saves, cfg, sv, cli, chat, cons, gens, runs>>
    ELSE /\ Len(disk[p]) + Len(content) + 1 <= MaxFileLen
         /\ disk' = WriteBytes(disk, p, WriteText(content \o <<LF>>))
         /\ last' = Result("append", p, "ok", <<>>)
         /\ saves' = [saves EXCEPT ![p] = <<>>]
         /\ UNCHANGED <<trace, cfg, sv, cli, chat, cons, gens, runs>>

\* mutant of AppendFile: opens the file for appending without the existence check
AppendFileMutCreate(p, content) ==
    /\ Len(IF Exists(disk, p) THEN disk[p] ELSE <<>>) + Len(content) + 1 <= MaxFileLen
    /\ disk' = WriteBytes(disk, p, (IF Exists(disk, p) THEN disk[p] ELSE <<>>)
                                    \o WriteText(content \o <<LF>>))
    /\ last' = Result("append", p, "ok", <<>>)
    /\ saves' = [saves EXCEPT ![p] = <<>>]
    /\ UNCHANGED <<trace, cfg, sv, cli, chat, cons, gens, runs>>

\* append_to_markdown
AppendFile(p, content) ==
    IF ~Exists(disk, p)
    THEN /\ last' = Result("append", p, "FileNotFoundError", <<>>)
         /\ UNCHANGED <<disk, trace, saves, cfg, sv, cli, chat, cons, gens, runs>>
    ELSE /\ Len(disk[p]) + Len(content) + 1 <= MaxFileLen
         /\ disk' = WriteBytes(disk, p, disk[p] \o WriteText(content \o <<LF>>))
         /\ last' = Result("append", p, "ok", <<>>)
         /\ saves' = [saves EXCEPT ![p] = <<>>]
         /\ UNCHANGED <<trace, cfg, sv, cli, chat, cons, gens, runs>>

\* mutant of ReadFile: a missing file reads as the empty text
ReadFileMutSoft(p) ==
    /\ last' = IF ~Exists(disk, p)
               THEN Result("read", p, "ok", <<>>)
               ELSE Result("read", p, "ok", ReadText(disk[p]))
    /\ UNCHANGED <<disk, trace, saves, cfg, sv, cli, chat, cons, gens, runs>>

\* read_from_markdown
ReadFile(p) ==
    /\ last' = IF ~Exists(disk, p)
               THEN Result("read", p, "FileNotFoundError", <<>>)
               ELSE Result("read", p, "ok", ReadText(disk[p]))
    /\ UNCHANGED <<disk, trace, saves, cfg, sv, cli, chat, cons, gens, runs>>

StoreNext ==
    \/ \E p \in StorePaths, c \in StoreContents, b \in BOOLEAN : SaveFile(p, c, b)
    \/ \E p \in StorePaths, c \in StoreContents : AppendFile(p, c)
    \/ \E p \in StorePaths : ReadFile(p)

SpecStore == StoreInit /\ [][StoreNext]_vars

(***************************************************************************)
(* Stepwise save specification: save_to_markdown as the file system sees   *)
(* it.  A destination is truncated when it is opened and filled one        *)
(* character at a time; the call can fail or be interrupted at any point.  *)
(***************************************************************************)
\* texts the stepwise specification saves
SaveContents == {t \in TextsUpTo(MaxLen) : \A i \in 1..Len(t) : t[i] # CR}

\* mutant of SaveOrder: overwrites the primary file, then copies it to the backup
SaveOrderMutWriteFirst(create_backup, existed) ==
    IF create_backup /\ existed THEN <<"write", "copy">> ELSE <<"write">>

\* the file transfers of one save_to_markdown call, in program order
SaveOrder(create_backup, existed) ==
    IF create_backup /\ existed THEN <<"copy", "write">> ELSE <<"write">>

\* the file the current transfer fills
SaveDest(s) == IF Head(s.todo) = "copy" THEN BackupPath(s.path) ELSE s.path

\* the bytes the current transfer has to deliver
SaveData(d, s) == IF Head(s.todo) = "copy" THEN d[s.path] ELSE WriteText(s.content)

\* save_to_markdown is entered: create_backup and file_path.exists() are evaluated
SaveCall(p, content, create_backup) ==
    /\ sv.pc # "run"
    /\ sv' = [pc |-> "run", path |-> p, content |-> content, backup |-> create_backup,
              d0 |-> disk, todo |-> SaveOrder(create_backup, Exists(disk, p)),
              opened |-> FALSE]
    /\ UNCHANGED <<disk, last, trace, saves, cfg, cons, gens, runs, cli, chat>>

\* the destination of the current transfer is opened for writing
SaveOpen ==
    /\ sv.pc = "run" /\ ~sv.opened
    /\ disk' = WriteBytes(disk, SaveDest(sv), <<>>)
    /\ sv' = [sv EXCEPT !.opened = TRUE]
    /\ UNCHANGED <<last, trace, saves, cfg, cons, gens, runs, cli, chat>>

\* the next character of the current transfer reaches the destination
SaveChunk ==
    /\ sv.pc = "run" /\ sv.opened
    /\ Len(disk[SaveDest(sv)]) < Len(SaveData(disk, sv))
    /\ disk' = WriteBytes(disk, SaveDest(sv),
                  Append(disk[SaveDest(sv)], SaveData(disk, sv)[Len(disk[SaveDest(sv)]) + 1]))
    /\ UNCHANGED <<sv, last, trace, saves, cfg, cons, gens, runs, cli, chat>>

\* the current transfer is complete; the call returns after the last one
SaveClose ==
    /\ sv.pc = "run" /\ sv.opened
    /\ Len(disk[SaveDest(sv)]) = Len(SaveData(disk, sv))
    /\ sv' = [sv EXCEPT !.todo = Tail(@), !.opened = FALSE,
                        !.pc = IF Tail(sv.todo) = <<>> THEN "done" ELSE "run"]
    /\ UNCHANGED <<disk, last, trace, saves, cfg, cons, gens, runs, cli, chat>>

\* the call fails or the process is interrupted where it stands
SaveInterrupt ==
    /\ sv.pc = "run"
    /\ sv' = [sv EXCEPT !.pc = "interrupted"]
    /\ UNCHANGED <<disk, last, trace, saves, cfg, cons, gens, runs, cli, chat>>

SaveNext ==
    \/ \E p \in StorePaths, c \in SaveContents, b \in BOOLEAN : SaveCall(p, c, b)
    \/ SaveOpen
    \/ SaveChunk
    \/ SaveClose
    \/ SaveInterrupt

SpecSave == StoreInit /\ [][SaveNext]_vars

(***************************************************************************)
(* The init command (storycraftr/cli.py)                                   *)
(***************************************************************************)
\* what detect_invocation returns
CliNames == {"storycraftr", "papercraftr"}

\* --keywords: not given (None), given empty, given with a value
KeywordOptions ==
    {[some |-> FALSE, text |-> ""], [some |-> TRUE, text |-> ""], [some |-> TRUE, text |-> "ai"]}

\* the option's default and one other value
LicenseOptions == {"CC BY-NC-SA", "MIT"}
AlternateLanguageOptions == {"", "es,fr"}
GenreOptions == {"fantasy", "scifi"}
ReferenceAuthorOptions == {"None", "Tolkien"}

\* truth value of the keywords argument (None and "" are false)
TruthyKeywords(k) == k.some /\ k.text # ""

\* no project has been initialized
NoProject == [kind |-> "none"]

\* init_structure_story: the project it sets up
init_structure_story(c) ==
    [kind |-> "story", license |-> c.license, alternate_languages |-> c.alternate_languages,
     genre |-> c.genre, reference_author |-> c.reference_author]

\* init_structure_paper: the project it sets up
init_structure_paper(c) == [kind |-> "paper", keywords |-> c.keywords.text]

\* the parameter validation of init: TRUE when it reports an error and exits
OptionError(c) ==
    IF c.cli_name = "storycraftr" /\ TruthyKeywords(c.keywords) THEN TRUE
    ELSE /\ c.cli_name = "papercraftr"
         /\ \/ c.license # "CC BY-NC-SA"
            \/ c.alternate_languages # ""
            \/ c.genre # "fantasy"
            \/ c.reference_author # "None"

\* the command line of one invocation of init, before it runs
CliInit ==
    /\ disk = <<>>
    /\ last = NoResult
    /\ trace = <<>>
    /\ saves = [p \in StorePaths |-> <<>>]
    /\ cfg = "absent"
    /\ cons = ConsIdle
    /\ gens = 0
    /\ runs = 0
    /\ sv = SaveIdle
    /\ chat = ChatIdle
    /\ \E n \in CliNames, k \in KeywordOptions, l \in LicenseOptions,
          a \in AlternateLanguageOptions, g \in GenreOptions,
          r \in ReferenceAuthorOptions, f \in BOOLEAN :
          cli = [pc |-> "start", cli_name |-> n, keywords |-> k, license |-> l,
                 alternate_languages |-> a, genre |-> g, reference_author |-> r,
                 behavior_is_file |-> f, exit_code |-> 0, project |-> NoProject]

\* init
init ==
    /\ cli.pc = "start"
    /\ cli' = IF OptionError(cli) THEN [cli EXCEPT !.pc = "exited", !.exit_code = 1]
              ELSE IF ~cli.behavior_is_file THEN [cli EXCEPT !.pc = "exited", !.exit_code = 1]
              ELSE IF cli.cli_name = "storycraftr"
                   THEN [cli EXCEPT !.pc = "exited", !.exit_code = 0,
                                    !.project = init_structure_story(cli)]
                   ELSE [cli EXCEPT !.pc = "exited", !.exit_code = 0,
                                    !.project = init_structure_paper(cli)]
    /\ UNCHANGED <<disk, last, trace, saves, cfg, cons, gens, runs, sv, chat>>

SpecInit == CliInit /\ [][init]_vars

(***************************************************************************)
(* File names of content units                                             *)
(***************************************************************************)
CHAPTERS == "chapters"
BOOK == "book"

COVER_MD == <<"c", "o", "v", "e", "r">> \o MD
BACK_COVER_MD == <<"b", "a", "c", "k", "-", "c", "o", "v", "e", "r">> \o MD
EPILOGUE_MD == <<"e", "p", "i", "l", "o", "g", "u", "e">> \o MD
CHAPTER_PREFIX == <<"c", "h", "a", "p", "t", "e", "r", "-">>

Digits == <<"0", "1", "2", "3", "4", "5", "6", "7", "8", "9">>

\* \d
IsDigit(c) == \E d \in 1..10 : Digits[d] = c

DigitVal(c) == (CHOOSE d \in 1..10 : Digits[d] = c) - 1

RECURSIVE IntToStr(_)
\* str(n) of a nonnegative integer
IntToStr(n) ==
    IF n < 10 THEN <<Digits[n + 1]>>
    ELSE IntToStr(n \div 10) \o <<Digits[(n % 10) + 1]>>

RECURSIVE StrToInt(_)
\* int(s) of a run of decimal digits
StrToInt(s) ==
    IF s = <<>> THEN 0
    ELSE 10 * StrToInt(SubSeq(s, 1, Len(s) - 1)) + DigitVal(s[Len(s)])

\* f"chapter-{chapter_number}.md"
ChapterFile(n) == CHAPTER_PREFIX \o IntToStr(n) \o MD

StartsWith(s, pre) == Len(s) >= Len(pre) /\ SubSeq(s, 1, Len(pre)) = pre

RECURSIVE TakeDigits(_)
\* the longest run of digits at the start of s
TakeDigits(s) ==
    IF s # <<>> /\ IsDigit(Head(s)) THEN <<Head(s)>> \o TakeDigits(Tail(s)) ELSE <<>>

RECURSIVE DropNonDigits(_)
DropNonDigits(s) ==
    IF s # <<>> /\ ~IsDigit(Head(s)) THEN DropNonDigits(Tail(s)) ELSE s

\* mutant of MatchChapter: the pattern anchored at the end of the name as well
MatchChapterMutAnchored(name) ==
    /\ StartsWith(name, CHAPTER_PREFIX)
    /\ LET rest == SubSeq(name, Len(CHAPTER_PREFIX) + 1, Len(name))
           d == Len(TakeDigits(rest))
       IN  d >= 1 /\ SubSeq(rest, d + 1, Len(rest)) = MD

\* re.match(r"chapter-\d+\.md", name): the pattern is anchored at the start of
\* the name only, whatever follows ".md" is accepted
MatchChapter(name) ==
    /\ StartsWith(name, CHAPTER_PREFIX)
    /\ LET rest == SubSeq(name, Len(CHAPTER_PREFIX) + 1, Len(name))
           d == Len(TakeDigits(rest))
       IN  d >= 1 /\ StartsWith(SubSeq(rest, d + 1, Len(rest)), MD)

\* int(re.findall(r"\d+", name)[0]): the first run of digits in the name
ChapterKey(name) == StrToInt(TakeDigits(DropNonDigits(name)))

RECURSIVE InsertByKeyMutDesc(_, _)
\* mutant of InsertByKey: descending order
InsertByKeyMutDesc(sorted, p) ==
    IF sorted = <<>> THEN <<p>>
    ELSE IF ChapterKey(p[2]) > ChapterKey(Head(sorted)[2]) THEN <<p>> \o sorted
         ELSE <<Head(sorted)>> \o InsertByKeyMutDesc(Tail(sorted), p)

RECURSIVE InsertByKey(_, _)
\* p put into a list sorted by key, after every element whose key is not larger
InsertByKey(sorted, p) ==
    IF sorted = <<>> THEN <<p>>
    ELSE IF ChapterKey(p[2]) < ChapterKey(Head(sorted)[2]) THEN <<p>> \o sorted
         ELSE <<Head(sorted)>> \o InsertByKey(Tail(sorted), p)

RECURSIVE SortedByKey(_)
\* sorted(files, key=...): ascending by key, stable (equal keys keep their order)
SortedByKey(files) ==
    IF files = <<>> THEN <<>>
    ELSE InsertByKey(SortedByKey(SubSeq(files, 1, Len(files) - 1)), files[Len(files)])

\* the orders in which a set of directory entries can be iterated
Orders(S) == {o \in [1..Cardinality(S) -> S] : \A i, j \in 1..Cardinality(S) : i # j => o[i] # o[j]}

\* chapters_dir.iterdir(): the paths found in the chapters directory
Listing(d) == {p \in DOMAIN d : p[1] = CHAPTERS}

\* the entries of the listing that the chapter pattern accepts
ChapterEntries(d) == {p \in Listing(d) : MatchChapter(p[2])}

\* files_to_process of consolidate_book_md, for the iteration order `order`
\* of the entries the pattern accepts
FilesToProcess(d, order) ==
    LET sections == SelectSeq(<<PathOf(CHAPTERS, COVER_MD), PathOf(CHAPTERS, BACK_COVER_MD)>>,
                              LAMBDA p : Exists(d, p))
        epilogue == IF Exists(d, PathOf(CHAPTERS, EPILOGUE_MD))
                    THEN <<PathOf(CHAPTERS, EPILOGUE_MD)>> ELSE <<>>
    IN  sections \o SortedByKey(order) \o epilogue


(***************************************************************************)
(* Project configuration                                                   *)
(***************************************************************************)
\* storycraftr.json: well formed, missing, not JSON, or JSON without a required key
ConfigStates == {"ok", "absent", "badjson", "nokey"}

PRIMARY_LANGUAGE == <<"e", "n">>

None == [present |-> FALSE, primary_language |-> <<>>]

\* mutant of load_book_config: a missing file yields a default configuration
load_book_configMutDefault(c) ==
    CASE c = "ok" -> [raised |-> "", config |-> [present |-> TRUE, primary_language |-> PRIMARY_LANGUAGE]]
      [] c = "absent" -> [raised |-> "", config |-> [present |-> TRUE, primary_language |-> PRIMARY_LANGUAGE]]
      [] c = "badjson" -> [raised |-> "JSONDecodeError", config |-> None]
      [] c = "nokey" -> [raised |-> "KeyError", config |-> None]

\* load_book_config: the exception it raises (if any) and the value it returns
load_book_config(c) ==
    CASE c = "ok" -> [raised |-> "", config |-> [present |-> TRUE, primary_language |-> PRIMARY_LANGUAGE]]
      [] c = "absent" -> [raised |-> "", config |-> None]
      [] c = "badjson" -> [raised |-> "JSONDecodeError", config |-> None]
      [] c = "nokey" -> [raised |-> "KeyError", config |-> None]

(***************************************************************************)
(* Content Generator                                                       *)
(***************************************************************************)
ChapterNumbers == {2, 10}

\* what the Generation Model Client does in one operation: every call works,
\* or the named call raises
ClientOutcomes == {"ok", "create_or_get_assistant", "create_message", "update_agent_files"}

\* texts the Generation Model Client returns for a prompt
GenReplies == {<<>>, <<"g", CR>>}

USER_PROMPT == <<"p">>

Ev(name, arg) == [ev |-> name, arg |-> arg]

\* TEMPLATE.format(prompt=prompt, language=config.primary_language, ...)
Format(template, config) ==
    [template |-> template, prompt |-> USER_PROMPT, language |-> config.primary_language]

\* mutant of MessageSaveRefresh: the backup copy is taken before the model is asked
MessageSaveRefreshMutEarlyBackup(d, p, content, client, reply, tr, existed) ==
    LET b == IF Exists(d, p) THEN Copy2(d, p, BackupPath(p)) ELSE d
    IN  IF client = "create_message"
        THEN [disk |-> b, trace |-> Append(tr, Ev("create_message", content)),
              res |-> [Result("generate", p, "UpstreamError", <<>>)
                         EXCEPT !.at = "create_message", !.existed = existed]]
        ELSE [disk |-> save_to_markdown(d, p, reply, TRUE),
              trace |-> tr \o <<Ev("create_message", content), Ev("save_to_markdown", p),
                                Ev("update_agent_files", save_to_markdown(d, p, reply, TRUE)[p])>>,
              res |-> IF client = "update_agent_files"
                      THEN [Result("generate", p, "UpstreamError", <<>>)
                              EXCEPT !.at = "update_agent_files", !.existed = existed]
                      ELSE [Result("generate", p, "ok", reply) EXCEPT !.existed = existed]]

\* mutant of MessageSaveRefresh: the agent's files are refreshed before the result is saved
MessageSaveRefreshMutRefreshFirst(d, p, content, client, reply, tr, existed) ==
    IF client = "create_message"
    THEN [disk |-> d, trace |-> Append(tr, Ev("create_message", content)),
          res |-> [Result("generate", p, "UpstreamError", <<>>)
                     EXCEPT !.at = "create_message", !.existed = existed]]
    ELSE LET tr2 == tr \o <<Ev("create_message", content),
                             Ev("update_agent_files", IF Exists(d, p) THEN d[p] ELSE <<>>)>>
         IN  IF client = "update_agent_files"
             THEN [disk |-> d, trace |-> tr2,
                   res |-> [Result("generate", p, "UpstreamError", <<>>)
                              EXCEPT !.at = "update_agent_files", !.existed = existed]]
             ELSE [disk |-> save_to_markdown(d, p, reply, TRUE),
                   trace |-> Append(tr2, Ev("save_to_markdown", p)),
                   res |-> [Result("generate", p, "ok", reply) EXCEPT !.existed = existed]]

\* create_message, save_to_markdown, update_agent_files, return: the tail every
\* generate function shares; the refresh event carries the unit's file as the
\* client finds it
MessageSaveRefresh(d, p, content, client, reply, tr, existed) ==
    IF client = "create_message"
    THEN [disk |-> d, trace |-> Append(tr, Ev("create_message", content)),
          res |-> [Result("generate", p, "UpstreamError", <<>>)
                     EXCEPT !.at = "create_message", !.existed = existed]]
    ELSE LET w == save_to_markdown(d, p, reply, TRUE)
             tr2 == tr \o <<Ev("create_message", content), Ev("save_to_markdown", p)>>
         IN  IF client = "update_agent_files"
             THEN [disk |-> w, trace |-> Append(tr2, Ev("update_agent_files", w[p])),
                   res |-> [Result("generate", p, "UpstreamError", <<>>)
                              EXCEPT !.at = "update_agent_files", !.existed = existed]]
             ELSE [disk |-> w, trace |-> Append(tr2, Ev("update_agent_files", w[p])),
                   res |-> [Result("generate", p, "ok", reply) EXCEPT !.existed = existed]]

\* mutant of NewOrRefine: takes the refine template only for a file with content
NewOrRefineMutNonEmpty(d, c, p, new, refine, client, reply) ==
    LET existed == Exists(d, p)
        tr == <<Ev("create_or_get_assistant", <<>>)>>
        fail(status, at, t) ==
            [disk |-> d, trace |-> t,
             res |-> [Result("generate", p, status, <<>>) EXCEPT !.at = at, !.existed = existed]]
    IN  IF client = "create_or_get_assistant"
        THEN fail("UpstreamError", "create_or_get_assistant", tr)
        ELSE LET tr1 == Append(tr, Ev("get_thread", <<>>))
                 cf == load_book_config(c)
             IN  IF cf.raised # "" THEN fail(cf.raised, "load_book_config", tr1)
                 ELSE IF ~cf.config.present THEN fail("AttributeError", "format", tr1)
                 ELSE MessageSaveRefresh(d, p,
                          Format(IF existed /\ d[p] # <<>> THEN refine ELSE new, cf.config),
                          client, reply, tr1, existed)

\* generate_chapter / generate_epilogue: handles first, then the template is
\* chosen by file_path.exists() and formatted with the configured language
NewOrRefine(d, c, p, new, refine, client, reply) ==
    LET existed == Exists(d, p)
        tr == <<Ev("create_or_get_assistant", <<>>)>>
        fail(status, at, t) ==
            [disk |-> d, trace |-> t,
             res |-> [Result("generate", p, status, <<>>) EXCEPT !.at = at, !.existed = existed]]
    IN  IF client = "create_or_get_assistant"
        THEN fail("UpstreamError", "create_or_get_assistant", tr)
        ELSE LET tr1 == Append(tr, Ev("get_thread", <<>>))
                 cf == load_book_config(c)
             IN  IF cf.raised # "" THEN fail(cf.raised, "load_book_config", tr1)
                 ELSE IF ~cf.config.present THEN fail("AttributeError", "format", tr1)
                 ELSE MessageSaveRefresh(d, p, Format(IF existed THEN refine ELSE new, cf.config),
                                         client, reply, tr1, existed)

\* generate_cover / generate_back_cover: the configuration is loaded first, then
\* the handles, then the one template of the unit is formatted
SingleTemplate(d, c, p, template, client, reply) ==
    LET existed == Exists(d, p)
        fail(status, at, t) ==
            [disk |-> d, trace |-> t,
             res |-> [Result("generate", p, status, <<>>) EXCEPT !.at = at, !.existed = existed]]
        cf == load_book_config(c)
    IN  IF cf.raised # "" THEN fail(cf.raised, "load_book_config", <<>>)
        ELSE LET tr == <<Ev("create_or_get_assistant", <<>>)>>
             IN  IF client = "create_or_get_assistant"
                 THEN fail("UpstreamError", "create_or_get_assistant", tr)
                 ELSE LET tr1 == Append(tr, Ev("get_thread", <<>>))
                      IN  IF ~cf.config.present THEN fail("AttributeError", "format", tr1)
                          ELSE MessageSaveRefresh(d, p, Format(template, cf.config),
                                                  client, reply, tr1, existed)

\* one run of a generate function: the disk, the events and the outcome it leaves
Generated(o) ==
    /\ cons.pc # "run"
    /\ gens + runs < MaxOps
    /\ gens' = gens + 1
    /\ disk' = o.disk
    /\ trace' = o.trace
    /\ last' = o.res
    /\ cons' = ConsIdle
    /\ UNCHANGED <<saves, cfg, sv, cli, chat, runs>>

generate_chapter(n, client, reply) ==
    Generated(NewOrRefine(disk, cfg, PathOf(CHAPTERS, ChapterFile(n)),
                          "CHAPTER_PROMPT_NEW", "CHAPTER_PROMPT_REFINE", client, reply))

generate_cover(client, reply) ==
    Generated(SingleTemplate(disk, cfg, PathOf(CHAPTERS, COVER_MD), "COVER_PROMPT", client, reply))

\* mutant of generate_back_cover: the result is saved to the cover's file
generate_back_coverMutCoverPath(client, reply) ==
    Generated(SingleTemplate(disk, cfg, PathOf(CHAPTERS, COVER_MD), "BACK_COVER_PROMPT",
                             client, reply))

generate_back_cover(client, reply) ==
    Generated(SingleTemplate(disk, cfg, PathOf(CHAPTERS, BACK_COVER_MD), "BACK_COVER_PROMPT",
                             client, reply))

generate_epilogue(client, reply) ==
    Generated(NewOrRefine(disk, cfg, PathOf(CHAPTERS, EPILOGUE_MD),
                          "EPILOGUE_PROMPT_NEW", "EPILOGUE_PROMPT_REFINE", client, reply))


(***************************************************************************)
(* Consolidator                                                            *)
(***************************************************************************)
\* the translate argument: None, the empty string or a language
NoTranslate == [some |-> FALSE, lang |-> <<>>]
TranslateOptions == {NoTranslate, [some |-> TRUE, lang |-> <<>>], [some |-> TRUE, lang |-> <<"e", "s">>]}

\* truth value of the translate argument (None and "" are false)
Truthy(t) == t.some /\ t.lang # <<>>

BOOK_PREFIX == <<"b", "o", "o", "k", "-">>

\* mutant of OutputPath: the target language names the file whenever translate is not None
OutputPathMutNotNone(primary_language, translate) ==
    PathOf(BOOK, BOOK_PREFIX \o (IF ~translate.some THEN primary_language ELSE translate.lang) \o MD)

\* Path(book_path) / "book" / output_file_name
OutputPath(primary_language, translate) ==
    PathOf(BOOK, BOOK_PREFIX \o (IF ~Truthy(translate) THEN primary_language ELSE translate.lang) \o MD)

\* texts the Generation Model Client returns for a fragment to translate
TransReplies == {<<"x">>, <<"y", LF>>}

\* what happens to one fragment: it is processed, reading it raises, or
\* create_message raises
StepOutcomes == {"ok", "read", "create_message"}

\* thread = get_thread(): a new conversation handle; handles are numbered in
\* the order the client hands them out
get_thread(issued) == issued + 1

\* mutant of CallThread: every fragment is translated in a conversation of its own
CallThreadMutFresh(c) == c.thread + c.i - 1

\* thread_id=thread.id: the conversation a translation call is made in
CallThread(c) == c.thread

\* total of the translation progress task
TRANSLATION_TOTAL == 50

\* mutant of ProgressTotal: only the chapter files are counted
ProgressTotalMutChapters(files) == Len(SelectSeq(files, LAMBDA p : MatchChapter(p[2])))

\* total of the fragment progress task: len(files_to_process)
ProgressTotal(files) == Len(files)

\* task_translation: created with its total only when translating
TranslationTask(translate) ==
    IF Truthy(translate) THEN [created |-> TRUE, total |-> TRANSLATION_TOTAL]
    ELSE [created |-> FALSE, total |-> 0]

\* mutant of FragmentText: the original content is written although a translation was made
FragmentTextMutOriginal(translate, content, reply) == content

\* the text written for a fragment: the translation when one was requested
FragmentText(translate, content, reply) == IF Truthy(translate) THEN reply ELSE content

\* mutant of WriteFragment: the marker goes between fragments, not after each
WriteFragmentMutBetween(d, out, text) ==
    WriteBytes(d, out, d[out] \o (IF d[out] = <<>> THEN <<>> ELSE WriteText(PAGE_BREAK)) \o WriteText(text))

\* consolidated_md.write(content); consolidated_md.write("\n\\newpage\n")
WriteFragment(d, out, text) ==
    WriteBytes(d, out, d[out] \o WriteText(text) \o WriteText(PAGE_BREAK))

\* mutant of ProcessFragment: a fragment that fails is skipped and the run goes on
ProcessFragmentMutSkip(c, d, tr, outcome, reply) ==
    LET f == c.files[c.i]
        content == ReadText(d[f])
        text == FragmentText(c.translate, content, reply)
        calls == IF Truthy(c.translate)
                 THEN <<Ev("create_message", [content |-> content, reply |-> reply, thread |-> CallThread(c)])>> ELSE <<>>
    IN  IF outcome # "ok"
        THEN [cons |-> [c EXCEPT !.i = @ + 1], disk |-> d, trace |-> tr,
              res |-> [Result("consolidate", c.out, "running", <<>>) EXCEPT !.at = outcome]]
        ELSE [cons |-> [c EXCEPT !.i = @ + 1, !.completed = @ + 1],
              disk |-> WriteFragment(d, c.out, text),
              trace |-> tr \o <<Ev("read", f)>> \o calls \o <<Ev("write", [file |-> f, text |-> text])>>,
              res |-> Result("consolidate", c.out, "running", <<>>)]

\* one pass of the loop over files_to_process: read the fragment, translate it
\* when a translation was requested, write the text and the page break
ProcessFragment(c, d, tr, outcome, reply) ==
    LET f == c.files[c.i]
        content == ReadText(d[f])
        text == FragmentText(c.translate, content, reply)
    IN  IF outcome = "read"
        THEN [cons |-> [c EXCEPT !.pc = "failed"], disk |-> d,
              trace |-> Append(tr, Ev("open", f)),
              res |-> [Result("consolidate", c.out, "OSError", <<>>) EXCEPT !.at = "read"]]
        ELSE IF Truthy(c.translate) /\ outcome = "create_message"
        THEN [cons |-> [c EXCEPT !.pc = "failed"], disk |-> d,
              trace |-> tr \o <<Ev("read", f), Ev("create_message", [content |-> content, reply |-> <<>>, thread |-> CallThread(c)])>>,
              res |-> [Result("consolidate", c.out, "UpstreamError", <<>>) EXCEPT !.at = "create_message"]]
        ELSE [cons |-> [c EXCEPT !.i = @ + 1, !.completed = @ + 1],
              disk |-> WriteFragment(d, c.out, text),
              trace |-> tr \o <<Ev("read", f)>>
                          \o (IF Truthy(c.translate)
                              THEN <<Ev("create_message", [content |-> content, reply |-> reply, thread |-> CallThread(c)])>>
                              ELSE <<>>)
                          \o <<Ev("write", [file |-> f, text |-> text])>>,
              res |-> Result("consolidate", c.out, "running", <<>>)]

\* consolidate_book_md up to the opening of the output file: output path,
\* handles, fragment list, output file opened for writing (truncated)
ConsStart(translate, order, client) ==
    /\ cons.pc # "run"
    /\ gens + runs < MaxOps
    /\ runs' = runs + 1
    /\ LET out == OutputPath(PRIMARY_LANGUAGE, translate)
       IN  IF client = "create_or_get_assistant"
           THEN /\ last' = [Result("consolidate", out, "UpstreamError", <<>>)
                              EXCEPT !.at = "create_or_get_assistant"]
                /\ trace' = <<Ev("create_or_get_assistant", <<>>)>>
                /\ cons' = [ConsIdle EXCEPT !.pc = "failed", !.out = out, !.translate = translate]
                /\ UNCHANGED disk
           ELSE /\ last' = Result("consolidate", out, "running", <<>>)
                /\ trace' = <<Ev("create_or_get_assistant", <<>>),
                              Ev("get_thread", get_thread(gens + runs)),
                              Ev("open_output", out)>>
                /\ cons' = [pc |-> "run", files |-> FilesToProcess(disk, order), i |-> 1,
                            out |-> out, translate |-> translate,
                            thread |-> get_thread(gens + runs),
                            total |-> ProgressTotal(FilesToProcess(disk, order)),
                            completed |-> 0,
                            task_translation |-> TranslationTask(translate)]
                /\ disk' = WriteBytes(disk, out, <<>>)
    /\ UNCHANGED <<saves, cfg, sv, cli, chat, gens>>

\* the loop body for the next fragment
ConsStep(outcome, reply) ==
    /\ cons.pc = "run"
    /\ cons.i <= Len(cons.files)
    /\ outcome = "create_message" => Truthy(cons.translate)
    /\ LET o == ProcessFragment(cons, disk, trace, outcome, reply)
       IN  /\ cons' = o.cons
           /\ disk' = o.disk
           /\ trace' = o.trace
           /\ last' = o.res
    /\ UNCHANGED <<saves, cfg, sv, cli, chat, gens, runs>>

\* the loop is over: the output file is closed and its path returned
ConsFinish ==
    /\ cons.pc = "run"
    /\ cons.i > Len(cons.files)
    /\ cons' = [cons EXCEPT !.pc = "done"]
    /\ trace' = Append(trace, Ev("return", cons.out))
    /\ last' = Result("consolidate", cons.out, "ok", <<>>)
    /\ UNCHANGED <<disk, saves, cfg, sv, cli, chat, gens, runs>>

(***************************************************************************)
(* The interactive chat loop (storycraftr/cmd/chat.py)                     *)
(***************************************************************************)
\* turns one chat session takes in the Chat specification
MaxTurns == 4

UpperCase == <<"E", "X", "I", "T", "H", "L", "P">>
LowerCase == <<"e", "x", "i", "t", "h", "l", "p">>

\* str.lower(), character by character
Lower(s) ==
    [i \in 1..Len(s) |->
        IF \E k \in 1..Len(UpperCase) : UpperCase[k] = s[i]
        THEN LowerCase[CHOOSE k \in 1..Len(UpperCase) : UpperCase[k] = s[i]]
        ELSE s[i]]

EXIT == <<"e", "x", "i", "t", "(", ")">>
HELP == <<"h", "e", "l", "p", "(", ")">>
BANG == <<"!">>

\* "Answer the next prompt formatted on markdown (text): "
ANSWER_PREFIX == <<"A", ":", " ">>

\* lines the user types at the prompt
ChatInputs ==
    {EXIT, <<"E", "x", "i", "t", "(", ")">>, HELP, <<"H", "E", "L", "P", "(", ")">>,
     BANG, BANG \o <<"m">>, BANG \o <<"x", " ", "c">>, BANG \o <<"m", " ", "x">>,
     BANG \o <<"m", " ", "c">>, BANG \o EXIT, <<"h", "i">>, <<" ">> \o EXIT}

\* how session.prompt ends: with a line, with Ctrl-C, or with another exception
ReadOutcomes == {"input", "KeyboardInterrupt", "EOFError"}

\* how the handling of a line ends: it returns, raises an Exception, is
\* interrupted from the keyboard, or the command run calls sys.exit()
HandleOutcomes == {"ok", "Exception", "KeyboardInterrupt", "SystemExit"}

\* the branch of the loop body a line takes
InputKind(u) ==
    IF Lower(u) = EXIT THEN "exit"
    ELSE IF Lower(u) = HELP THEN "help"
    ELSE IF StartsWith(u, BANG) THEN "command"
    ELSE "message"

RECURSIVE Tokens(_, _)
\* shlex.split of a line without quotes: the words between blanks (cur is
\* the word being read)
Tokens(s, cur) ==
    IF s = <<>> THEN (IF cur = <<>> THEN <<>> ELSE <<cur>>)
    ELSE IF Head(s) = " "
         THEN (IF cur = <<>> THEN <<>> ELSE <<cur>>) \o Tokens(Tail(s), <<>>)
         ELSE Tokens(Tail(s), Append(cur, Head(s)))

\* the keys of command_modules ("m" stands for iterate, outline, ...)
command_modules == {<<"m">>}

\* the names hasattr finds on a module of command_modules and that are callable
ModuleAttributes == {<<"c">>}

\* the line names a function that execute_cli_command goes on to call
CommandCalled(line) ==
    LET parts == Tokens(line, <<>>)
    IN  /\ Len(parts) >= 2
        /\ parts[1] \in command_modules
        /\ parts[2] \in ModuleAttributes

\* execute_cli_command: a line that names no function is reported; the
\* function called returns or raises; every Exception is caught and reported
\* inside, an interrupt or a SystemExit leaves it
execute_cli_command(line, outcome) ==
    IF ~CommandCalled(line) THEN (IF outcome = "KeyboardInterrupt" THEN outcome ELSE "ok")
    ELSE IF outcome = "Exception" THEN "ok" ELSE outcome

\* the try statement around create_message: every Exception is caught and reported
AskModel(outcome) == IF outcome = "Exception" THEN "ok" ELSE outcome

\* one pass of the while loop: how it leaves the loop body and what it sent
\* to the Generation Model Client
LoopBody(read, u, outcome) ==
    LET kind == IF read = "input" THEN InputKind(u) ELSE "none"
        raised == IF read # "input" THEN read
                  ELSE IF kind = "exit" THEN "break"
                  ELSE IF kind = "help" THEN outcome
                  ELSE IF kind = "command" THEN execute_cli_command(Tail(u), outcome)
                  ELSE AskModel(outcome)
    IN  [kind |-> kind,
         sent |-> IF kind = "message" THEN <<ANSWER_PREFIX \o u>> ELSE <<>>,
         raised |-> raised,
         pc |-> IF raised = "break" THEN "ended"
                ELSE IF raised = "KeyboardInterrupt" THEN "ended"
                ELSE IF raised = "SystemExit" THEN "ended"
                ELSE "prompt"]

ChatInit ==
    /\ disk = <<>>
    /\ last = NoResult
    /\ trace = <<>>
    /\ saves = [p \in StorePaths |-> <<>>]
    /\ cfg \in ConfigStates
    /\ cons = ConsIdle
    /\ gens = 0
    /\ runs = 0
    /\ sv = SaveIdle
    /\ cli = CliIdle
    /\ chat = ChatIdle

\* chat up to the loop: configuration, assistant and thread
ChatStart(client) ==
    /\ chat.pc = "idle"
    /\ client \in {"ok", "create_or_get_assistant"}
    /\ LET cf == load_book_config(cfg)
           stop(by) == [pc |-> "ended", by |-> by, turns |-> 0, read |-> "", input |-> <<>>,
                        kind |-> "none", outcome |-> "", sent |-> <<>>]
       IN  chat' = IF cf.raised # "" THEN stop(cf.raised)
                   ELSE IF ~cf.config.present THEN stop("return")
                   ELSE IF client = "create_or_get_assistant" THEN stop("UpstreamError")
                   ELSE [stop("") EXCEPT !.pc = "prompt"]
    /\ UNCHANGED <<disk, last, trace, saves, cfg, cons, gens, runs, sv, cli>>

\* one turn: the prompt is shown, a line is read and handled
ChatTurn(read, u, outcome) ==
    /\ chat.pc = "prompt"
    /\ chat.turns < MaxTurns
    /\ read # "input" => u = <<>>
    /\ read = "input" => u \in ChatInputs
    /\ (read # "input" \/ InputKind(u) = "exit") => outcome = "ok"
    /\ outcome = "SystemExit" => (InputKind(u) = "command" /\ CommandCalled(Tail(u)))
    /\ LET b == LoopBody(read, u, outcome)
       IN  chat' = [pc |-> b.pc, by |-> IF b.pc = "ended" THEN b.raised ELSE "",
                    turns |-> chat.turns + 1, read |-> read, input |-> u,
                    kind |-> b.kind, outcome |-> outcome, sent |-> b.sent]
    /\ UNCHANGED <<disk, last, trace, saves, cfg, cons, gens, runs, sv, cli>>

ChatNext ==
    \/ \E client \in ClientOutcomes : ChatStart(client)
    \/ \E read \in ReadOutcomes, u \in ChatInputs \cup {<<>>}, outcome \in HandleOutcomes :
          ChatTurn(read, u, outcome)

SpecChat == ChatInit /\ [][ChatNext]_vars

(***************************************************************************)
(* Book specification: generate operations and consolidation runs on one   *)
(* project, one after the other                                            *)
(***************************************************************************)
UnitNames == {ChapterFile(n) : n \in ChapterNumbers} \cup {COVER_MD, BACK_COVER_MD, EPILOGUE_MD}

\* what a unit file holds when the behaviour starts
InitialContent(name) ==
    IF name = COVER_MD THEN <<"c">>
    ELSE IF name = BACK_COVER_MD THEN <<"b", CR, LF>>
    ELSE IF name = EPILOGUE_MD THEN <<>>
    ELSE <<"#">> \o TakeDigits(DropNonDigits(name))

\* a project directory holding some of the units
InitialDisks ==
    {[p \in {PathOf(CHAPTERS, n) : n \in S} |-> InitialContent(p[2])] : S \in SUBSET UnitNames}

\* the units in the order a book is written: cover, back cover, chapters by
\* number, epilogue
WritingOrder ==
    LET full == [p \in {PathOf(CHAPTERS, n) : n \in UnitNames} |-> InitialContent(p[2])]
    IN  FilesToProcess(full, CHOOSE o \in Orders(ChapterEntries(full)) : TRUE)

\* a project directory of a book in progress: the units written so far
BookDisks ==
    {[p \in {WritingOrder[i] : i \in 1..k} |-> InitialContent(p[2])] : k \in 0..Len(WritingOrder)}

Generate ==
    \/ \E n \in ChapterNumbers, client \in ClientOutcomes, reply \in GenReplies :
           generate_chapter(n, client, reply)
    \/ \E client \in ClientOutcomes, reply \in GenReplies : generate_cover(client, reply)
    \/ \E client \in ClientOutcomes, reply \in GenReplies : generate_back_cover(client, reply)
    \/ \E client \in ClientOutcomes, reply \in GenReplies : generate_epilogue(client, reply)

Init ==
    /\ disk \in BookDisks
    /\ cfg = "ok"
    /\ last = NoResult
    /\ trace = <<>>
    /\ saves = [p \in StorePaths |-> <<>>]
    /\ cons = ConsIdle
    /\ gens = 0
    /\ runs = 0
    /\ sv = SaveIdle
    /\ chat = ChatIdle
    /\ cli = CliIdle

Next ==
    \/ Generate
    \/ \E translate \in TranslateOptions, order \in Orders(ChapterEntries(disk)),
          client \in {"ok", "create_or_get_assistant"} : ConsStart(translate, order, client)
    \/ \E outcome \in StepOutcomes, reply \in TransReplies : ConsStep(outcome, reply)
    \/ ConsFinish

Spec == Init /\ [][Next]_vars

(***************************************************************************)
(* Generator specification: generate operations under every state of the   *)
(* configuration file                                                      *)
(***************************************************************************)
GenInit ==
    /\ disk \in InitialDisks
    /\ cfg \in ConfigStates
    /\ last = NoResult
    /\ trace = <<>>
    /\ saves = [p \in StorePaths |-> <<>>]
    /\ cons = ConsIdle
    /\ gens = 0
    /\ runs = 0
    /\ sv = SaveIdle
    /\ chat = ChatIdle
    /\ cli = CliIdle

SpecGen == GenInit /\ [][Generate]_vars


(***************************************************************************)
(* Helpers of the claims                                                   *)
(***************************************************************************)
\* the events of one kind in a log, in order
EventsOf(tr, name) == SelectSeq(tr, LAMBDA e : e.ev = name)

RECURSIVE JoinWithBreaks(_)
\* every text followed by the page-break marker, concatenated in order
JoinWithBreaks(texts) ==
    IF texts = <<>> THEN <<>>
    ELSE Head(texts) \o PAGE_BREAK \o JoinWithBreaks(Tail(texts))

\* position of a fragment in the order cover, back-cover, chapters, epilogue
SectionRank(p) ==
    IF p[2] = COVER_MD THEN 1
    ELSE IF p[2] = BACK_COVER_MD THEN 2
    ELSE IF p[2] = EPILOGUE_MD THEN 4
    ELSE 3

\* a consolidation run has built its fragment list (and is running or over)
RunStarted == last.op = "consolidate" /\ last.at # "create_or_get_assistant"

TemplateKind(t) ==
    IF t \in {"CHAPTER_PROMPT_NEW", "EPILOGUE_PROMPT_NEW"} THEN "new"
    ELSE IF t \in {"CHAPTER_PROMPT_REFINE", "EPILOGUE_PROMPT_REFINE"} THEN "refine"
    ELSE "single"

\* the last operation was a generate that sent a prompt to the model
PromptSent == last.op = "generate" /\ EventsOf(trace, "create_message") # <<>>

SentTemplate == EventsOf(trace, "create_message")[1].arg.template

\* the step is one run of a generate function
GenerateStep == gens' = gens + 1

(***************************************************************************)
(* Consolidator claims                                                     *)
(***************************************************************************)
\* C2: the fragment list of a consolidation run is cover, back-cover, the
\* chapter files in ascending order of their integer, epilogue, and it is the
\* list every iteration order of the chapters directory yields.
C2_FragmentOrder ==
    RunStarted =>
        /\ \A i, j \in 1..Len(cons.files) :
               i < j => \/ SectionRank(cons.files[i]) < SectionRank(cons.files[j])
                        \/ /\ SectionRank(cons.files[i]) = 3
                           /\ SectionRank(cons.files[j]) = 3
                           /\ ChapterKey(cons.files[i][2]) <= ChapterKey(cons.files[j][2])
        /\ \A o \in Orders(ChapterEntries(disk)) : cons.files = FilesToProcess(disk, o)

\* C3: a consolidation run without target language (None or "") that
\* completes leaves in the output file the text read from each fragment, in
\* fragment-list order, each followed by the page-break marker, nothing else.
C3_ConcatenationWithBreaks ==
    (last.op = "consolidate" /\ last.status = "ok" /\ ~Truthy(cons.translate))
    => /\ Exists(disk, cons.out)
       /\ disk[cons.out] = JoinWithBreaks([i \in 1..Len(cons.files) |-> ReadText(disk[cons.files[i]])])
       /\ EventsOf(trace, "create_message") = <<>>

\* a run without translation over three or more fragments, one of them
\* holding a carriage return, has completed
C3_Witness ==
    /\ last.op = "consolidate" /\ last.status = "ok" /\ ~Truthy(cons.translate)
    /\ Len(cons.files) >= 3
    /\ \E i \in 1..Len(cons.files) : \E k \in 1..Len(disk[cons.files[i]]) : disk[cons.files[i]][k] = CR

\* C4: a consolidation run with a target language in which every model call
\* succeeds sends the content of each fragment to create_message exactly once,
\* in fragment-list order, and the output file holds the returned texts in
\* that order, each followed by the page-break marker.
C4_TranslatedInPlace ==
    (last.op = "consolidate" /\ last.status = "ok" /\ Truthy(cons.translate))
    => LET calls == EventsOf(trace, "create_message")
       IN  /\ Len(calls) = Len(cons.files)
           /\ \A i \in 1..Len(cons.files) : calls[i].arg.content = ReadText(disk[cons.files[i]])
           /\ disk[cons.out] = JoinWithBreaks([i \in 1..Len(cons.files) |-> calls[i].arg.reply])

\* a translating run over two or more fragments that got different
\* translations has completed
C4_Witness ==
    /\ last.op = "consolidate" /\ last.status = "ok" /\ Truthy(cons.translate)
    /\ Len(cons.files) >= 2
    /\ \E i, j \in 1..Len(EventsOf(trace, "create_message")) :
           EventsOf(trace, "create_message")[i].arg.reply # EventsOf(trace, "create_message")[j].arg.reply

\* C5: when reading or translating fragment k fails, the run has failed: no
\* path is returned, fragments after k are neither read, translated nor
\* written, and the output file holds the texts of fragments 1..k-1, each
\* followed by the page-break marker.
C5_FailureAborts ==
    (last.op = "consolidate" /\ last.at \in {"read", "create_message"})
    => LET k == cons.i
           reads == EventsOf(trace, "read")
           calls == EventsOf(trace, "create_message")
           writes == EventsOf(trace, "write")
       IN  /\ cons.pc = "failed" /\ last.status \notin {"ok", "running"}
           /\ EventsOf(trace, "return") = <<>>
           /\ Len(reads) = (IF last.at = "read" THEN k - 1 ELSE k)
           /\ \A j \in 1..Len(reads) : reads[j].arg = cons.files[j]
           /\ Len(calls) = (IF ~Truthy(cons.translate) THEN 0
                            ELSE IF last.at = "read" THEN k - 1 ELSE k)
           /\ Len(writes) = k - 1
           /\ \A j \in 1..(k - 1) :
                  /\ writes[j].arg.file = cons.files[j]
                  /\ writes[j].arg.text = (IF Truthy(cons.translate) THEN calls[j].arg.reply
                                           ELSE ReadText(disk[cons.files[j]]))
           /\ disk[cons.out] = JoinWithBreaks([j \in 1..(k - 1) |-> writes[j].arg.text])

\* a run over three or more fragments has failed at its second fragment
C5_Witness ==
    /\ last.op = "consolidate" /\ last.at \in {"read", "create_message"}
    /\ cons.i = 2 /\ Len(cons.files) >= 3
    /\ disk[cons.out] # <<>>

C7_FailedCallWritesNothing ==
    [][(GenerateStep /\ last'.status = "UpstreamError"
            /\ last'.at \in {"create_or_get_assistant", "create_message"})
       => /\ disk' = disk
          /\ EventsOf(trace', "save_to_markdown") = <<>>
          /\ EventsOf(trace', "update_agent_files") = <<>>]_vars

\* create_message has failed on a unit whose file exists
C7_Witness ==
    /\ last.op = "generate" /\ last.status = "UpstreamError" /\ last.at = "create_message"
    /\ last.existed /\ Exists(disk, last.path) /\ ~Exists(disk, BackupPath(last.path))

\* C8: when the configuration is absent, not JSON or lacks a field, so that
\* the prompt cannot be built, generate ends with an error, create_message is
\* not called and nothing is written.
C8_PromptFailureWritesNothing ==
    [][(GenerateStep /\ cfg # "ok")
       => /\ last'.status \in {"AttributeError", "KeyError", "JSONDecodeError", "UpstreamError"}
          /\ last'.at \in {"load_book_config", "format", "create_or_get_assistant"}
          /\ disk' = disk
          /\ EventsOf(trace', "create_message") = <<>>
          /\ EventsOf(trace', "save_to_markdown") = <<>>]_vars

\* a generate on an existing unit has failed for the absent configuration
C8_Witness ==
    /\ last.op = "generate" /\ last.status = "AttributeError" /\ last.at = "format"
    /\ cfg = "absent" /\ last.existed


(***************************************************************************)
(* Document Store claims                                                   *)
(***************************************************************************)
\* C1: after two or more successive save calls with backup=true to one path,
\* the primary file holds the content of the last call and the backup file
\* (path plus ".bak") holds the content of the call before it; no other
\* generation of the file is kept on disk.
C1_BackupHoldsPrevious ==
    \A p \in StorePaths :
        (Len(saves[p]) = 2 /\ saves[p][1].backup /\ saves[p][2].backup)
        => /\ Exists(disk, p) /\ disk[p] = saves[p][2].content
           /\ Exists(disk, BackupPath(p)) /\ disk[BackupPath(p)] = saves[p][1].content
           /\ DOMAIN disk \subseteq StorePaths \cup {BackupPath(q) : q \in StorePaths}

\* two backup saves with different contents have happened
C1_Witness ==
    \E p \in StorePaths :
        /\ Len(saves[p]) = 2 /\ saves[p][1].backup /\ saves[p][2].backup
        /\ saves[p][1].content # saves[p][2].content
        /\ Exists(disk, BackupPath(p)) /\ disk[BackupPath(p)] # disk[p]

\* C9: read_from_markdown directly after save_to_markdown(path, X) returns
\* exactly X, for every X (empty, holding the page-break marker, holding
\* carriage returns).
C9_RoundTrip ==
    (last.op = "read" /\ last.status = "ok" /\ saves[last.path] # <<>>)
    => last.ret = saves[last.path][Len(saves[last.path])].content

\* C10: an append to a path where no file exists fails with FileNotFoundError
\* and leaves the disk as it was.
C10_AppendMissingFails ==
    [][(last'.op = "append" /\ last' # last /\ ~Exists(disk, last'.path))
       => (last'.status = "FileNotFoundError" /\ disk' = disk)]_vars

\* an append has failed on a missing path
C10_Witness ==
    last.op = "append" /\ last.status = "FileNotFoundError" /\ ~Exists(disk, last.path)

\* C11: an append to an existing file holding A, with argument B, leaves the
\* file holding A + B + "\n" and nothing else changed; hence a sequence of
\* appends only ever extends the file, earlier content is kept as it was.
C11_AppendExtends ==
    [][\A p \in StorePaths, B \in StoreContents :
          (AppendFile(p, B) /\ Exists(disk, p))
          => /\ last'.status = "ok"
             /\ disk' = [disk EXCEPT ![p] = disk[p] \o B \o <<LF>>]]_vars

\* an append has extended a file that held text
C11_Witness ==
    /\ last.op = "append" /\ last.status = "ok"
    /\ disk[last.path] = <<"a", "a", LF>>

\* C12: a read of a path where no file exists fails with FileNotFoundError; a
\* read of an existing file returns its whole text; either way the disk is
\* left as it was.
C12_ReadReturnsText ==
    [][(last'.op = "read")
       => /\ disk' = disk
          /\ IF Exists(disk, last'.path)
             THEN last'.status = "ok" /\ last'.ret = ReadText(disk[last'.path])
             ELSE last'.status = "FileNotFoundError" /\ last'.ret = <<>>]_vars

\* a read has failed on a missing file
C12_WitnessMissing ==
    last.op = "read" /\ last.status = "FileNotFoundError" /\ ~Exists(disk, last.path)

\* C13: a save with backup=false, or a save with backup=true on a path where
\* no file exists, neither creates nor changes the backup file.
C13_NoBackupWritten ==
    [][\A p \in StorePaths :
          (last'.op = "save" /\ last'.path = p /\ saves' # saves
             /\ (~saves'[p][Len(saves'[p])].backup \/ ~Exists(disk, p)))
          => /\ Exists(disk', BackupPath(p)) <=> Exists(disk, BackupPath(p))
             /\ Exists(disk, BackupPath(p)) => disk'[BackupPath(p)] = disk[BackupPath(p)]]_vars

\* a save with backup=false has overwritten a file and left an older backup
C13_Witness ==
    \E p \in StorePaths :
        /\ last.op = "save" /\ Len(saves[p]) = 2 /\ ~saves[p][2].backup
        /\ Exists(disk, BackupPath(p))
        /\ disk[BackupPath(p)] # saves[p][1].content
        /\ disk[p] # saves[p][1].content

(***************************************************************************)
(* Configuration claim                                                     *)
(***************************************************************************)
\* C14: loading the configuration when storycraftr.json is absent or is not
\* JSON returns "no config"; no exception leaves load_book_config.
C14_SoftFailure ==
    (last.op = "generate" /\ cfg \in {"absent", "badjson"})
    => (last.at # "load_book_config" /\ last.status # "JSONDecodeError")


\* C15: with create_backup on an existing file the backup copy is complete before
\* the primary file is opened for the overwrite, so at every point of the call,
\* and after a failure or interruption at any point, the content the file held
\* before the call is intact in the primary file or in the backup file; a call
\* that returns leaves the disk save_to_markdown describes.
C15_BackupBeforeOverwrite ==
    LET p == sv.path
        pre == sv.d0[p]
    IN  /\ (sv.pc \in {"run", "interrupted", "done"} /\ sv.backup /\ Exists(sv.d0, p))
           => /\ \/ disk[p] = pre
                 \/ Exists(disk, BackupPath(p)) /\ disk[BackupPath(p)] = pre
              /\ (sv.todo # <<>> /\ Head(sv.todo) = "write" /\ sv.opened)
                 => Exists(disk, BackupPath(p)) /\ disk[BackupPath(p)] = pre
        /\ sv.pc = "done" => disk = save_to_markdown(sv.d0, p, sv.content, sv.backup)

\* an interrupted overwrite of a non-empty file whose content survives in the backup only
C15_Witness ==
    /\ sv.pc = "interrupted" /\ sv.backup /\ Exists(sv.d0, sv.path)
    /\ sv.d0[sv.path] # <<>>
    /\ sv.todo = <<"write">> /\ sv.opened
    /\ disk[sv.path] # sv.d0[sv.path]
    /\ disk[BackupPath(sv.path)] = sv.d0[sv.path]


\* C16: after a successful consolidation run without translation the output
\* file is a function of the current fragments only: it holds no earlier
\* content, and it is the text any run over the same unchanged fragments
\* produces, whatever order the directory listing hands the files out in.
C16_FunctionOfFragments ==
    (last.op = "consolidate" /\ last.status = "ok" /\ ~Truthy(cons.translate))
    => \A o \in Orders(ChapterEntries(disk)) :
          LET files == FilesToProcess(disk, o)
          IN  disk[cons.out] = JoinWithBreaks([i \in 1..Len(files) |-> ReadText(disk[files[i]])])


\* C17: init exits with code 1 and initializes no project when --keywords is
\* given under storycraftr, when --license, --alternate-languages, --genre or
\* --reference-author is given with a non-default value under papercraftr, or
\* when the --behavior path is not a file; otherwise it initializes the
\* project of the variant and exits with code 0.
C17_InitValidation ==
    cli.pc = "exited"
    => IF \/ cli.cli_name = "storycraftr" /\ cli.keywords.some
          \/ /\ cli.cli_name = "papercraftr"
             /\ \/ cli.license # "CC BY-NC-SA"
                \/ cli.alternate_languages # ""
                \/ cli.genre # "fantasy"
                \/ cli.reference_author # "None"
          \/ ~cli.behavior_is_file
       THEN cli.exit_code = 1 /\ cli.project = NoProject
       ELSE /\ cli.exit_code = 0
            /\ cli.project.kind = (IF cli.cli_name = "storycraftr" THEN "story" ELSE "paper")


\* C18: a consolidation run obtains its conversation handle exactly once,
\* before the first fragment is opened, and every translation call of the
\* run is made in that conversation.
C18_OneThreadPerRun ==
    RunStarted
    => /\ Len(EventsOf(trace, "get_thread")) = 1
       /\ \A i, j \in 1..Len(trace) :
             (trace[i].ev = "get_thread" /\ trace[j].ev \in {"open", "read", "create_message", "write"})
             => i < j
       /\ \A k \in 1..Len(EventsOf(trace, "create_message")) :
             EventsOf(trace, "create_message")[k].arg.thread = EventsOf(trace, "get_thread")[1].arg

\* a translating run, started after an earlier operation, has made two or more calls
C18_Witness ==
    /\ last.op = "consolidate" /\ last.status = "ok" /\ Truthy(cons.translate)
    /\ Len(EventsOf(trace, "create_message")) >= 2
    /\ cons.thread > 1

\* C19: the progress totals of a consolidation run are set before the first
\* fragment is processed (fragment total = length of the fragment list;
\* translation task created, with total 50, only when translating) and stay
\* as set; the fragment counter starts at zero, advances by exactly one with
\* each fragment written, never exceeds its total, and equals the total
\* exactly when every fragment has been processed, which is when the run
\* completes successfully and never when it fails.
C19_ProgressCounters ==
    [][(last'.op = "consolidate" /\ last'.at # "create_or_get_assistant")
       => LET written(tr) == Len(EventsOf(tr, "write"))
          IN  /\ cons'.total = Len(cons'.files)
              /\ cons'.task_translation.created = Truthy(cons'.translate)
              /\ cons'.task_translation.created => cons'.task_translation.total = TRANSLATION_TOTAL
              /\ cons'.completed <= cons'.total
              /\ cons'.completed = written(trace')
              /\ IF cons.pc = "run"
                 THEN /\ cons'.total = cons.total
                      /\ cons'.task_translation = cons.task_translation
                      /\ cons'.completed = cons.completed + (written(trace') - written(trace))
                      /\ written(trace') - written(trace) \in {0, 1}
                 ELSE cons'.completed = 0
              /\ last'.status = "ok" => cons'.completed = cons'.total
              /\ cons'.pc = "failed" => cons'.completed < cons'.total
              /\ cons'.completed = cons'.total
                 <=> (cons'.pc = "done" \/ (cons'.pc = "run" /\ cons'.i > Len(cons'.files)))]_vars

\* a translating run over three or more fragments has completed
C19_Witness ==
    /\ last.op = "consolidate" /\ last.status = "ok"
    /\ cons.task_translation.created
    /\ cons.total >= 3 /\ cons.completed = cons.total

\* a run has failed at its second or a later fragment
C19_WitnessFailed ==
    /\ last.op = "consolidate" /\ cons.pc = "failed"
    /\ cons.completed >= 1 /\ cons.completed < cons.total


\* C20: in every successful generate the model call returns, then the result
\* is saved, then the client is told to refresh the project files: each of
\* the three happens exactly once, in that order, the refresh finds the file
\* as the save left it, and the text returned is the content written.
C20_CallSaveRefresh ==
    (last.op = "generate" /\ last.status = "ok")
    => /\ Len(EventsOf(trace, "create_message")) = 1
       /\ Len(EventsOf(trace, "save_to_markdown")) = 1
       /\ Len(EventsOf(trace, "update_agent_files")) = 1
       /\ \A i, j, k \in 1..Len(trace) :
             (trace[i].ev = "create_message" /\ trace[j].ev = "save_to_markdown"
                /\ trace[k].ev = "update_agent_files")
             => i < j /\ j < k
       /\ EventsOf(trace, "save_to_markdown")[1].arg = last.path
       /\ Exists(disk, last.path)
       /\ disk[last.path] = WriteText(last.ret)
       /\ EventsOf(trace, "update_agent_files")[1].arg = disk[last.path]

\* a refining generate has succeeded with a non-empty text that differs from the old one
C20_Witness ==
    /\ last.op = "generate" /\ last.status = "ok" /\ last.existed
    /\ last.ret # <<>>
    /\ Exists(disk, BackupPath(last.path))
    /\ disk[BackupPath(last.path)] # disk[last.path]


\* C21: whatever generate operations came before (refinements that leave
\* backup files included), the fragment list of a consolidation run holds only
\* files named exactly cover.md, back-cover.md, chapter-<integer>.md or
\* epilogue.md, never a backup file, and each chapter index at most once.
C21_NoBackupInFragments ==
    RunStarted
    => LET exact(name) ==
               \/ name \in {COVER_MD, BACK_COVER_MD, EPILOGUE_MD}
               \/ /\ StartsWith(name, CHAPTER_PREFIX)
                  /\ LET rest == SubSeq(name, Len(CHAPTER_PREFIX) + 1, Len(name))
                     IN  TakeDigits(rest) # <<>> /\ rest = TakeDigits(rest) \o MD
       IN  /\ \A i \in 1..Len(cons.files) : exact(cons.files[i][2])
           /\ \A i, j \in 1..Len(cons.files) :
                 (i # j /\ SectionRank(cons.files[i]) = 3 /\ SectionRank(cons.files[j]) = 3)
                 => ChapterKey(cons.files[i][2]) # ChapterKey(cons.files[j][2])


C24_LoopEndsOnExitOrInterrupt ==
    [][(chat.pc = "prompt" /\ chat' # chat)
       => /\ chat'.pc \in {"prompt", "ended"}
          /\ chat'.pc = "ended"
             <=> \/ chat'.read = "input" /\ Lower(chat'.input) = EXIT
                 \/ chat'.read = "KeyboardInterrupt"
                 \/ chat'.outcome = "KeyboardInterrupt"
          /\ (chat'.read = "input"
                /\ \/ Lower(chat'.input) \in {EXIT, HELP}
                   \/ (chat'.input # <<>> /\ Head(chat'.input) = "!"))
             => chat'.sent = <<>>]_vars

====
